---- MODULE Spec2Model ----
(***************************************************************************)
(* Model of define-claude-code-hooks: the settings reconciler of the CLI   *)
(* (updateSettingsFile / removeFromSettingsFile) and the two-mode          *)
(* dispatcher of defineHooks (describe mode, invoke mode).                 *)
(*                                                                         *)
(* Strings are sequences of tokens.  A token is an opaque piece of text;   *)
(* project paths and markers are spelled token by token so that            *)
(* String.prototype.includes is the search for a contiguous sub-sequence.  *)
(* A JSON object is a sequence of [k, v] members in enumeration order.     *)
(***************************************************************************)
EXTENDS Integers, Sequences, FiniteSets, TLC

\* ------------------------------------------------------------------ bounds
MaxEntries == 2
MaxRuns == 2

\* ----------------------------------------------------------------- strings
Includes(s, sub) ==
    \E i \in 0..(Len(s) - Len(sub)) : SubSeq(s, i + 1, i + Len(sub)) = sub

Quote(s) == <<"\"">> \o s \o <<"\"">>

RECURSIVE Flatten(_)
Flatten(ss) == IF ss = <<>> THEN <<>> ELSE Head(ss) \o Flatten(Tail(ss))

\* ------------------------------------------------------- JavaScript objects
\* Own-property enumeration order of a JavaScript object: integer-like keys
\* first, in ascending numeric order, then the other keys in insertion order.
IndexKeys == <<"1", "2">>

IsIndexKey(k) == \E i \in 1..Len(IndexKeys) : IndexKeys[i] = k

JSOrder(o) ==
    Flatten([i \in 1..Len(IndexKeys) |->
                SelectSeq(o, LAMBDA m : m.k = IndexKeys[i])])
    \o SelectSeq(o, LAMBDA m : ~IsIndexKey(m.k))

ObjHas(o, key) == \E i \in 1..Len(o) : o[i].k = key

ObjGet(o, key) == o[CHOOSE i \in 1..Len(o) : o[i].k = key].v

\* o[key] = val : replaces the value in place, or adds the member.
ObjSet(o, key, val) ==
    IF ObjHas(o, key)
    THEN [i \in 1..Len(o) |-> IF o[i].k = key THEN [k |-> key, v |-> val] ELSE o[i]]
    ELSE JSOrder(Append(o, [k |-> key, v |-> val]))

\* ---------------------------------------------------------------- scopes
Locations == {"project", "local", "user"}

COMPILED_HOOK_FILES(location) ==
    CASE location = "project" -> <<".hooks/hooks.js">>
      [] location = "local" -> <<".hooks/hooks.local.js">>
      [] location = "user" -> <<".hooks/hooks.user.js">>

\* Absolute project paths, spelled character by character: /a, /ab, /c.
ProjA == <<"/", "a">>
ProjAB == <<"/", "a", "b">>
ProjC == <<"/", "c">>
Projects == {ProjA, ProjAB, ProjC}

MANAGED_BY_MARKER == <<"__managed_by_define_claude_code_hooks__">>

getManagedMarker(location, cwd) ==
    IF location = "user"
    THEN MANAGED_BY_MARKER \o <<":">> \o cwd
    ELSE MANAGED_BY_MARKER

\* path.resolve(process.cwd(), COMPILED_HOOK_FILES[type])
compiledHookPath(location, cwd) == cwd \o <<"/">> \o COMPILED_HOOK_FILES(location)


\* ------------------------------------------------------------ hook registry
IsToolHookType(hookType) == hookType = "PreToolUse" \/ hookType = "PostToolUse"

\* A registry (HookDefinition) is an object mapping a hook type to its list of
\* bindings.  A tool binding is [matcher, handler]; a session binding is a
\* bare function, written [fn].
IsToolDef(handler) == "matcher" \in DOMAIN handler

\* handlers.indexOf(handler), zero based
IndexOf(handlers, handler) ==
    (CHOOSE i \in 1..Len(handlers) :
        /\ handlers[i] = handler
        /\ \A j \in 1..(i - 1) : handlers[j] # handler) - 1

ToolDescriptors(hookType, handlers) ==
    LET sel == SelectSeq([i \in 1..Len(handlers) |-> i],
                         LAMBDA i : IsToolDef(handlers[i]))
    IN [j \in 1..Len(sel) |->
          [matcher |-> handlers[sel[j]].matcher,
           handler |-> hookType,
           index |-> IndexOf(handlers, handlers[sel[j]])]]

SessionDescriptors(hookType, handlers) ==
    << [handler |-> hookType, count |-> Len(handlers)] >>

\* defineHook(type, definition)
defineHook(type, definition) == definition

\* describe mode (__generate_settings): the registry description
RECURSIVE GenerateSettings(_)
GenerateSettings(hooks) ==
    IF hooks = <<>> THEN <<>>
    ELSE LET hookType == Head(hooks).k
             handlers == Head(hooks).v
             rest == GenerateSettings(Tail(hooks))
         IN IF Len(handlers) = 0 THEN rest
            ELSE << [k |-> hookType,
                     v |-> IF IsToolHookType(hookType)
                           THEN ToolDescriptors(hookType, handlers)
                           ELSE SessionDescriptors(hookType, handlers)] >> \o rest

\* ------------------------------------------------------ settings reconciler
\* JSON.parse of a settings document: member order becomes the JavaScript
\* enumeration order, at the top level and inside the hooks object.
JSONParse(top) ==
    JSOrder([i \in 1..Len(top) |->
                IF top[i].k = "hooks"
                THEN [k |-> "hooks", v |-> JSOrder(top[i].v)]
                ELSE top[i]])

\* Variant: any command of the entry carrying the marker makes it managed.
IsManaged_AnyCommand(matcher, marker) ==
    \E i \in 1..Len(matcher.hooks) : Includes(matcher.hooks[i].command, marker)

\* matcher.hooks.length === 1 && matcher.hooks[0].command.includes(marker)
IsManaged(matcher, marker) ==
    /\ Len(matcher.hooks) = 1
    /\ Includes(matcher.hooks[1].command, marker)

\* matcher.hooks.length on an entry that has no hooks list is a TypeError
FilterThrows(hooksObj) ==
    \E i \in 1..Len(hooksObj) : \E j \in 1..Len(hooksObj[i].v) :
        "hooks" \notin DOMAIN hooksObj[i].v[j]

\* Variant: the lists are not filtered, only empty ones are deleted.
RemoveManaged_KeepsManaged(hooksObj, marker) ==
    SelectSeq(hooksObj, LAMBDA m : m.v # <<>>)

\* Variant: the lists are filtered but an emptied list keeps its key.
RemoveManaged_KeepsEmpty(hooksObj, marker) ==
    [i \in 1..Len(hooksObj) |->
        [k |-> hooksObj[i].k,
         v |-> SelectSeq(hooksObj[i].v,
                         LAMBDA matcher : ~IsManaged(matcher, marker))]]

\* The "remove existing managed hooks" loop: every list is filtered and an
\* event type whose list became empty is deleted.
RemoveManaged(hooksObj, marker) ==
    SelectSeq([i \in 1..Len(hooksObj) |->
                  [k |-> hooksObj[i].k,
                   v |-> SelectSeq(hooksObj[i].v,
                                   LAMBDA matcher : ~IsManaged(matcher, marker))]],
              LAMBDA m : m.v # <<>>)

RECURSIVE SumLen(_)
SumLen(hooksObj) ==
    IF hooksObj = <<>> THEN 0 ELSE Len(Head(hooksObj).v) + SumLen(Tail(hooksObj))

\* Variant: the positional index is left out of the command line.
ToolCommand_NoIndex(commandPath, hookType, entry, marker) ==
    <<"test -f ">> \o Quote(commandPath) \o <<" && node ">> \o Quote(commandPath)
    \o <<" __run_hook ", hookType, " ">> \o Quote(entry.matcher)
    \o <<" || (>&2 echo \"Error: Hook script not found at ">> \o commandPath
    \o <<"\" && >&2 echo \"Please run: npx define-claude-code-hooks\" && exit 1) # ">>
    \o marker

ToolCommand(commandPath, hookType, entry, marker) ==
    <<"test -f ">> \o Quote(commandPath) \o <<" && node ">> \o Quote(commandPath)
    \o <<" __run_hook ", hookType, " ">> \o Quote(entry.matcher)
    \o <<" ">> \o Quote(<<ToString(entry.index)>>)
    \o <<" || (>&2 echo \"Error: Hook script not found at ">> \o commandPath
    \o <<"\" && >&2 echo \"Please run: npx define-claude-code-hooks\" && exit 1) # ">>
    \o marker

\* Variant: the command line has no branch for a failed test.
SessionCommand_NoGuard(commandPath, hookType, marker) ==
    <<"test -f ">> \o Quote(commandPath) \o <<" && node ">> \o Quote(commandPath)
    \o <<" __run_hook ", hookType>> \o <<" # ">> \o marker

SessionCommand(commandPath, hookType, marker) ==
    <<"test -f ">> \o Quote(commandPath) \o <<" && node ">> \o Quote(commandPath)
    \o <<" __run_hook ", hookType>>
    \o <<" || (>&2 echo \"Error: Hook script not found at ">> \o commandPath
    \o <<"\" && >&2 echo \"Please run: npx define-claude-code-hooks\" && exit 1) # ">>
    \o marker

GeneratedEntry(commandPath, hookType, entry, marker) ==
    IF IsToolHookType(hookType)
    THEN [matcher |-> entry.matcher,
          hooks |-> << [type |-> "command",
                        command |-> ToolCommand(commandPath, hookType, entry, marker)] >>]
    ELSE [hooks |-> << [type |-> "command",
                        command |-> SessionCommand(commandPath, hookType, marker)] >>]

GeneratedEntries(commandPath, hookType, entries, marker) ==
    [i \in 1..Len(entries) |-> GeneratedEntry(commandPath, hookType, entries[i], marker)]

\* The word between the first pair of double quotes of a command line.
FirstQuoted(command) ==
    LET open == CHOOSE i \in 1..Len(command) :
                    /\ command[i] = "\""
                    /\ \A j \in 1..(i - 1) : command[j] # "\""
        close == CHOOSE i \in (open + 1)..Len(command) :
                    /\ command[i] = "\""
                    /\ \A j \in (open + 1)..(i - 1) : command[j] # "\""
    IN SubSeq(command, open + 1, close - 1)

HasToken(command, token) == \E i \in 1..Len(command) : command[i] = token

\* The shell running a generated command line, test -f "P" && node "P" ...
\* || ( ... exit 1) # marker : files are the paths that exist, nodeExit the
\* exit code of the dispatcher if it is started.  The and-or list groups to
\* the left: the branch after || runs whenever what precedes it fails.
RunCommand(command, files, nodeExit) ==
    LET testStatus == IF Head(command) = "test -f " /\ FirstQuoted(command) \in files
                      THEN 0 ELSE 1
        started == testStatus = 0
        listStatus == IF started THEN nodeExit ELSE testStatus
        guardRuns ==
            /\ HasToken(command, " || (>&2 echo \"Error: Hook script not found at ")
            /\ listStatus # 0
    IN [started |-> started,
        stderr |-> IF guardRuns
                   THEN << "Error: Hook script not found at", "Please run:" >>
                   ELSE <<>>,
        exitCode |-> IF guardRuns THEN 1 ELSE listStatus]

\* Variant: generated entries are put in front of the existing ones.
RECURSIVE AddHooks_Prepend(_, _, _, _)
AddHooks_Prepend(hooksObj, hookInfo, commandPath, marker) ==
    IF hookInfo = <<>> THEN hooksObj
    ELSE LET hookType == Head(hookInfo).k
             existing == IF ObjHas(hooksObj, hookType)
                         THEN ObjGet(hooksObj, hookType) ELSE <<>>
             added == GeneratedEntries(commandPath, hookType,
                                       Head(hookInfo).v, marker) \o existing
         IN AddHooks_Prepend(ObjSet(hooksObj, hookType, added), Tail(hookInfo),
                             commandPath, marker)

\* The "add hooks based on what's defined" loop over Object.entries(hookInfo)
RECURSIVE AddHooks(_, _, _, _)
AddHooks(hooksObj, hookInfo, commandPath, marker) ==
    IF hookInfo = <<>> THEN hooksObj
    ELSE LET hookType == Head(hookInfo).k
             existing == IF ObjHas(hooksObj, hookType)
                         THEN ObjGet(hooksObj, hookType) ELSE <<>>
             added == existing \o GeneratedEntries(commandPath, hookType,
                                                   Head(hookInfo).v, marker)
         IN AddHooks(ObjSet(hooksObj, hookType, added), Tail(hookInfo),
                     commandPath, marker)

\* A settings file is absent, unparseable ("corrupt") or a JSON document.
AbsentFile == [state |-> "absent", top |-> <<>>]
CorruptFile == [state |-> "corrupt", top |-> <<>>]
JsonFile(top) == [state |-> "json", top |-> top]

\* Variant: a document that cannot be parsed stops the update.
updateSettingsFile_ParseFatal(file, hookPath, hookInfo, location, cwd) ==
    LET commandPath == IF location = "user" THEN hookPath
                       ELSE <<"./">> \o COMPILED_HOOK_FILES(location)
        loaded == IF file.state = "json" THEN JSONParse(file.top) ELSE <<>>
        settings == IF ObjHas(loaded, "hooks") THEN loaded
                    ELSE ObjSet(loaded, "hooks", <<>>)
        marker == getManagedMarker(location, cwd)
        hooksObj == ObjGet(settings, "hooks")
    IN IF FilterThrows(hooksObj) \/ file.state = "corrupt"
       THEN [file |-> file, threw |-> TRUE, wrote |-> FALSE,
             warned |-> FALSE]
       ELSE [file |-> JsonFile(ObjSet(settings, "hooks",
                          AddHooks(RemoveManaged(hooksObj, marker), hookInfo,
                                   commandPath, marker))),
             threw |-> FALSE, wrote |-> TRUE, warned |-> FALSE]

\* updateSettingsFile: the outcome is the file left on disk and whether the
\* call threw (in which case nothing was written).
updateSettingsFile(file, hookPath, hookInfo, location, cwd) ==
    LET commandPath == IF location = "user" THEN hookPath
                       ELSE <<"./">> \o COMPILED_HOOK_FILES(location)
        loaded == IF file.state = "json" THEN JSONParse(file.top) ELSE <<>>
        settings == IF ObjHas(loaded, "hooks") THEN loaded
                    ELSE ObjSet(loaded, "hooks", <<>>)
        marker == getManagedMarker(location, cwd)
        hooksObj == ObjGet(settings, "hooks")
    IN IF FilterThrows(hooksObj)
       THEN [file |-> file, threw |-> TRUE, wrote |-> FALSE,
             warned |-> FALSE]
       ELSE [file |-> JsonFile(ObjSet(settings, "hooks",
                          AddHooks(RemoveManaged(hooksObj, marker), hookInfo,
                                   commandPath, marker))),
             threw |-> FALSE, wrote |-> TRUE,
             warned |-> (file.state = "corrupt")]


\* Variant: the document is written back whenever it could be filtered.
removeFromSettingsFile_AlwaysWrites(file, location, cwd) ==
    LET settings == JSONParse(file.top)
        marker == getManagedMarker(location, cwd)
        hooksObj == ObjGet(settings, "hooks")
        untouched == [file |-> file, threw |-> FALSE, wrote |-> FALSE,
                      warned |-> FALSE]
    IN IF file.state = "absent" THEN untouched
       ELSE IF file.state = "corrupt" THEN [untouched EXCEPT !.warned = TRUE]
       ELSE IF ~ObjHas(settings, "hooks") THEN untouched
       ELSE IF FilterThrows(hooksObj) THEN [untouched EXCEPT !.warned = TRUE]
       ELSE [file |-> JsonFile(ObjSet(settings, "hooks",
                                      RemoveManaged(hooksObj, marker))),
             threw |-> FALSE, wrote |-> TRUE, warned |-> FALSE]

\* removeFromSettingsFile: errors are caught inside; the file is written
\* only when at least one entry was removed.
removeFromSettingsFile(file, location, cwd) ==
    LET settings == JSONParse(file.top)
        marker == getManagedMarker(location, cwd)
        hooksObj == ObjGet(settings, "hooks")
        kept == RemoveManaged(hooksObj, marker)
        removedCount == SumLen(hooksObj) - SumLen(kept)
        untouched == [file |-> file, threw |-> FALSE, wrote |-> FALSE,
                      warned |-> FALSE]
    IN IF file.state = "absent" THEN untouched
       ELSE IF file.state = "corrupt" THEN [untouched EXCEPT !.warned = TRUE]
       ELSE IF ~ObjHas(settings, "hooks") THEN untouched
       ELSE IF FilterThrows(hooksObj) THEN [untouched EXCEPT !.warned = TRUE]
       ELSE IF removedCount > 0
            THEN [file |-> JsonFile(ObjSet(settings, "hooks", kept)),
                  threw |-> FALSE, wrote |-> TRUE, warned |-> FALSE]
            ELSE untouched


\* --------------------------------------------------------------- matcher
\* new RegExp(matcher) for the patterns of this model: alternatives separated
\* by "|", each a sequence of atoms (a literal token, or "." for any token),
\* an atom optionally followed by "*".  An alternative that starts with "*"
\* has nothing to repeat: the constructor throws a SyntaxError.
RECURSIVE SplitAlternatives(_)
SplitAlternatives(pattern) ==
    IF \A i \in 1..Len(pattern) : pattern[i] # "|" THEN << pattern >>
    ELSE LET bar == CHOOSE i \in 1..Len(pattern) :
                        /\ pattern[i] = "|"
                        /\ \A j \in 1..(i - 1) : pattern[j] # "|"
         IN << SubSeq(pattern, 1, bar - 1) >>
            \o SplitAlternatives(SubSeq(pattern, bar + 1, Len(pattern)))

RegExpThrows(pattern) ==
    LET alts == SplitAlternatives(pattern)
    IN \E a \in 1..Len(alts) : alts[a] # <<>> /\ alts[a][1] = "*"

AtomMatches(atom, token) == atom = "." \/ atom = token

\* Whether the alternative matches a prefix of the text.
RECURSIVE MatchHere(_, _)
MatchHere(alt, text) ==
    IF alt = <<>> THEN TRUE
    ELSE IF Len(alt) >= 2 /\ alt[2] = "*"
         THEN \/ MatchHere(SubSeq(alt, 3, Len(alt)), text)
              \/ /\ text # <<>>
                 /\ AtomMatches(alt[1], Head(text))
                 /\ MatchHere(alt, Tail(text))
         ELSE /\ text # <<>>
              /\ AtomMatches(alt[1], Head(text))
              /\ MatchHere(Tail(alt), Tail(text))

\* regex.test(toolName): an unanchored search
RegExpTest(pattern, toolName) ==
    LET alts == SplitAlternatives(pattern)
    IN \E a \in 1..Len(alts) : \E i \in 0..Len(toolName) :
          MatchHere(alts[a], SubSeq(toolName, i + 1, Len(toolName)))

\* -------------------------------------------------------------- dispatcher
ExitCodeSUCCESS == 0
ExitCodeERROR == 1
ExitCodeBLOCKING_ERROR == 2

\* JavaScript truthiness of an optional string argument
Truthy(args, field) == field \in DOMAIN args /\ args[field] # <<>>

\* parseInt(index); NaN and negative numbers name no array element
ParseInt(index) ==
    CASE index = <<"0">> -> 0
      [] index = <<"1">> -> 1
      [] index = <<"5">> -> 5
      [] OTHER -> -1

\* Variant: every event type reports a block on stderr.
shouldOutputToStderr_Always(type) == TRUE

shouldOutputToStderr(type) ==
    type = "PreToolUse" \/ type = "PostToolUse" \/ type = "Stop" \/ type = "SubagentStop"

\* Variant: the mode is taken from the arguments of any process that loads
\* the declaring module.
SelectMode_AnyProcess(main, args) ==
    IF args.mode = "__generate_settings" THEN "describe"
    ELSE IF args.mode = "__run_hook" THEN "invoke"
    ELSE "none"

\* The mode defineHooks runs in: require.main === module.parent, then argv[2].
SelectMode(main, args) ==
    IF ~main THEN "none"
    ELSE IF args.mode = "__generate_settings" THEN "describe"
    ELSE IF args.mode = "__run_hook" THEN "invoke"
    ELSE "none"

\* Variant: a registry without bindings is refused.
DescribeOutput_EmptyIsError(registry) ==
    IF GenerateSettings(registry) = <<>>
    THEN [stdout |-> <<>>, stderr |-> << "Error: no hooks" >>, exitCode |-> 1]
    ELSE [stdout |-> << GenerateSettings(registry) >>, stderr |-> <<>>, exitCode |-> 0]

\* Describe mode: console.log(JSON.stringify(settings)); process.exit(0)
DescribeOutput(registry) ==
    [stdout |-> << GenerateSettings(registry) >>, stderr |-> <<>>,
     exitCode |-> ExitCodeSUCCESS]

\* Variant: the event type of the payload is not compared with the arguments.
PayloadError_NoTypeCheck(input, hookType) ==
    IF ~input.valid THEN << "Error: Invalid JSON input:" >> ELSE <<>>

\* The two validations at the head of runHookHandler: the diagnostic of the
\* one that fails, <<>> when the payload passes both.
PayloadError(input, hookType) ==
    IF ~input.valid THEN << "Error: Invalid JSON input:" >>
    ELSE IF input.hook_event_name # hookType THEN << "Error: Expected hook" >>
    ELSE <<>>

\* Variant: an empty binding list is processed like any other.
NoHandlers_Never(hookHandlers) == FALSE

\* !hookHandlers || !Array.isArray(hookHandlers) || hookHandlers.length === 0
NoHandlers(hookHandlers) == Len(hookHandlers) = 0

\* hooks[hookType], <<>> standing for undefined as well as for the empty list
HandlersOf(hooks, hookType) ==
    IF ObjHas(hooks, hookType) THEN ObjGet(hooks, hookType) ELSE <<>>

\* The handlers runHookHandler will call, as positions in the binding list,
\* in calling order (the regular expression is known to compile).
HandlersToRun(hookHandlers, args, input) ==
    IF IsToolHookType(args.hookType) /\ Truthy(args, "matcher") /\ Truthy(args, "index")
    THEN IF /\ "tool_name" \in DOMAIN input
            /\ (RegExpTest(args.matcher, input.tool_name) \/ input.tool_name = args.matcher)
            /\ ParseInt(args.index) + 1 \in 1..Len(hookHandlers)
            /\ "handler" \in DOMAIN hookHandlers[ParseInt(args.index) + 1]
         THEN << ParseInt(args.index) + 1 >>
         ELSE <<>>
    ELSE IF ~IsToolHookType(args.hookType)
         THEN SelectSeq([i \in 1..Len(hookHandlers) |-> i],
                        LAMBDA i : "fn" \in DOMAIN hookHandlers[i])
         ELSE <<>>

\* Variant: all handlers are started at once.
Batch_All(plan) == plan

\* The handlers started before runHookHandler suspends again: it awaits each
\* call before the next one.
Batch(plan) == << Head(plan) >>

\* The "handle the results" loop; the final result is <<>> (none) or <<r>>.
RECURSIVE AggregateFrom(_, _)
AggregateFrom(results, finalResult) ==
    IF results = <<>> THEN finalResult
    ELSE LET result == Head(results)
         IN IF "decision" \in DOMAIN result /\ result.decision = "block"
            THEN << result >>
            ELSE AggregateFrom(Tail(results),
                               IF finalResult = <<>> THEN << result >> ELSE finalResult)

\* Variant: the first collected result wins, blocking or not.
Aggregate_FirstWins(results) ==
    IF results = <<>> THEN <<>> ELSE << Head(results) >>

Aggregate(results) == AggregateFrom(results, <<>>)

\* The "output the result" part: what is printed and the exit code.
Output(finalResult, hookType) ==
    IF finalResult = <<>>
    THEN [stdout |-> <<>>, stderr |-> <<>>, exitCode |-> ExitCodeSUCCESS]
    ELSE LET r == finalResult[1]
         IN IF /\ "decision" \in DOMAIN r /\ r.decision = "block"
               /\ "reason" \in DOMAIN r /\ r.reason # ""
               /\ shouldOutputToStderr(hookType)
            THEN [stdout |-> << r >>, stderr |-> << r.reason >>,
                  exitCode |-> ExitCodeBLOCKING_ERROR]
            ELSE [stdout |-> << r >>, stderr |-> <<>>, exitCode |-> ExitCodeSUCCESS]

\* Variant: the results collected so far are still printed.
HandlerError_PartialOutput(results) ==
    [stdout |-> results, stderr |-> << "Hook execution error:" >>,
     exitCode |-> 1]

\* The catch clause of runHookHandler.
HandlerError(results) ==
    [stdout |-> <<>>, stderr |-> << "Hook execution error:" >>,
     exitCode |-> ExitCodeERROR]

\* ------------------------------------------------------------------ inputs
\* Registries the declaring code may build.
Tool(m, h) == [matcher |-> m, handler |-> h]
Fn(h) == [fn |-> h]

RegEmpty == <<>>
RegTools ==
    << [k |-> "PreToolUse", v |-> << Tool(<<"Bash">>, "h1"), Tool(<<>>, "h2") >>],
       [k |-> "Stop", v |-> << Fn("s1"), Fn("s2") >>] >>
RegSessionFirst ==
    << [k |-> "Stop", v |-> << Fn("s1") >>],
       [k |-> "PreToolUse", v |-> << Tool(<<"Bash", "|", "Write">>, "h1") >>] >>
RegMalformed ==
    << [k |-> "PreToolUse", v |-> << Fn("h1") >>],
       [k |-> "Notification", v |-> << Fn("n1") >>],
       [k |-> "SubagentStop", v |-> <<>>] >>
\* A registry whose only entry is a function under a tool event type: its
\* description lists the event type with no descriptor.
RegToolFunction == << [k |-> "PostToolUse", v |-> << Fn("h1") >>] >>

Registries == {RegEmpty, RegTools, RegSessionFirst, RegMalformed, RegToolFunction}

\* A registry whose only tool binding has the empty string as matcher.
RegEmptyMatcher ==
    << [k |-> "PostToolUse", v |-> << Tool(<<>>, "h1") >>],
       [k |-> "PreToolUse", v |-> << Tool(<<>>, "h1") >>] >>

\* The registries the dispatcher is loaded with.
DeclaredRegistries == Registries \cup {RegEmptyMatcher}

\* Entries a settings document may hold before the tool runs.
Cmd(text) == [type |-> "command", command |-> text]

UserPlain == [matcher |-> <<"Write">>, hooks |-> << Cmd(<<"echo hi">>) >>]
UserTwoCommands ==
    [matcher |-> <<"Edit">>,
     hooks |-> << Cmd(<<"echo hi">>), Cmd(<<"lint # ">> \o MANAGED_BY_MARKER) >>]
StaleManaged ==
    [matcher |-> <<"Bash">>, hooks |-> << Cmd(<<"old # ">> \o MANAGED_BY_MARKER) >>]
NoHooksList == [command |-> <<"echo hi">>]
UserSession == [hooks |-> << Cmd(<<"say done">>) >>]

\* The entry the user-scope update of project cwd generates for a binding.
UserScopeEntry(cwd) ==
    GeneratedEntry(compiledHookPath("user", cwd), "PreToolUse",
                   [matcher |-> <<"Bash">>, handler |-> "PreToolUse", index |-> 0],
                   getManagedMarker("user", cwd))

EntryPool ==
    {UserPlain, UserTwoCommands, StaleManaged, NoHooksList,
     UserScopeEntry(ProjAB), UserScopeEntry(ProjC)}

RECURSIVE SeqsUpTo(_, _)
SeqsUpTo(S, n) ==
    IF n = 0 THEN {<<>>}
    ELSE LET shorter == SeqsUpTo(S, n - 1)
         IN shorter \cup {Append(q, x) : q \in shorter, x \in S}

StopLists == {<<>>, <<UserSession>>}

InitHooks ==
    {<<>>}
    \cup {<< [k |-> "PreToolUse", v |-> l] >> : l \in SeqsUpTo(EntryPool, MaxEntries)}
    \cup {<< [k |-> "Stop", v |-> sl], [k |-> "PreToolUse", v |-> l] >> :
             sl \in StopLists, l \in SeqsUpTo(EntryPool, 1)}

Other(key) == [k |-> key, v |-> "opaque"]

\* The hooks sub-trees put between other settings: lists of one entry at most.
FramedHooks == {h \in InitHooks : \A i \in 1..Len(h) : Len(h[i].v) <= 1}

InitTops ==
    {<< >>, << Other("model"), Other("1") >>}
    \cup {<< [k |-> "hooks", v |-> h] >> : h \in InitHooks}
    \cup {<< Other("model"), [k |-> "hooks", v |-> h], Other("2"), Other("1") >> :
             h \in FramedHooks}

InitFiles == {AbsentFile, CorruptFile} \cup {JsonFile(t) : t \in InitTops}


\* Process arguments after the script name.
Patterns == { <<"Bash">>, <<"Bash", "|", "Write">>, <<>>, <<".", "*">>, <<"*">> }
IndexArgs == { <<"0">>, <<"1">>, <<"5">> }
RunTypes == {"PreToolUse", "Stop", "Notification"}

Argvs ==
    { [mode |-> "__generate_settings"], [mode |-> "none"] }
    \cup { [mode |-> "__run_hook", hookType |-> t] : t \in RunTypes }
    \cup { [mode |-> "__run_hook", hookType |-> t, matcher |-> m, index |-> i] :
              t \in RunTypes, m \in Patterns, i \in IndexArgs }

\* What arrives on stdin: text that is not JSON, or an event payload.
ToolNames == { <<"Bash">>, <<"Write">>, <<"Bash", "Output">> }

Payloads ==
    { [valid |-> FALSE] }
    \cup { [valid |-> TRUE, hook_event_name |-> t] : t \in RunTypes }
    \cup { [valid |-> TRUE, hook_event_name |-> "PreToolUse", tool_name |-> n] :
              n \in ToolNames }

\* What a handler does when it is called.
Outcomes ==
    { [kind |-> "throw"], [kind |-> "undefined"],
      [kind |-> "return", value |-> [suppressOutput |-> TRUE]],
      [kind |-> "return", value |-> [decision |-> "approve"]],
      [kind |-> "return", value |-> [decision |-> "block", reason |-> "no"]],
      [kind |-> "return", value |-> [decision |-> "block"]] }

\* A run of the CLI: the scopes in the order of Object.entries(HOOK_FILES),
\* what becomes of each scope's hook file, and the settings documents the run
\* may find.  The run is started in project /a; every hook file that loads
\* declares the registry CliRegistry.
Scopes == << "project", "local", "user" >>

HookFileStates == {"absent", "compileError", "describeError", "ok"}

CliRegistry == RegTools

\* The entry an earlier update of the scope generated.
ManagedEntry(type) ==
    GeneratedEntry(IF type = "user" THEN compiledHookPath(type, ProjA)
                   ELSE <<"./">> \o COMPILED_HOOK_FILES(type),
                   "PreToolUse",
                   [matcher |-> <<"Bash">>, handler |-> "PreToolUse", index |-> 0],
                   getManagedMarker(type, ProjA))

ScopeDocs(type) ==
    { AbsentFile, CorruptFile,
      JsonFile(<< [k |-> "hooks",
                   v |-> << [k |-> "PreToolUse",
                             v |-> << UserPlain, ManagedEntry(type) >>] >>] >>),
      JsonFile(<< Other("model"),
                  [k |-> "hooks",
                   v |-> << [k |-> "PreToolUse", v |-> << ManagedEntry(type) >>] >>],
                  Other("1") >>),
      JsonFile(<< [k |-> "hooks",
                   v |-> << [k |-> "PreToolUse",
                             v |-> << NoHooksList, ManagedEntry(type) >>] >>] >>) }

\* ------------------------------------------------------- logging handlers
\* logStopEvents, logSubagentStopEvents, logNotificationEvents,
\* logPreToolUseEvents and logPostToolUseEvents share one body: read the log
\* file, push the new entry, rotate, write the file.
MaxCalls == 2
MaxStored == 2
MaxExisting == 2

\* logs.slice(-n): the last n elements; -0 is 0, and slice(0) is the whole array
SliceLast(logs, n) ==
    IF n = 0 THEN logs
    ELSE SubSeq(logs, IF Len(logs) > n THEN Len(logs) - n + 1 ELSE 1, Len(logs))

\* if (logs.length > maxEventsStored) logs = logs.slice(-maxEventsStored)
Rotate(logs, max) ==
    IF Len(logs) > max THEN SliceLast(logs, max) ELSE logs

\* The log file: absent, text that is not JSON, JSON that is not an array
\* (an object, a number, a string, null), or an array of entries.
LogFile(state, logs) == [state |-> state, logs |-> logs]

\* The inner try: logs after readFile and JSON.parse.  A missing file and
\* text that is not JSON leave the empty array.
ReadLogs(file) ==
    IF file.state = "array" THEN file.logs ELSE <<>>

\* logs.push on a parsed value that is not an array is a TypeError
PushThrows(file) == file.state = "notArray"

\* Variant: the error leaves the handler.
CatchError_Rethrows(event) ==
    [console |-> <<>>, promise |-> "rejected"]

\* catch (error) { console.error('Failed to log ... event:', error) }, after
\* which the async handler resolves with undefined
CatchError(event) ==
    [console |-> << [message |-> "Failed to log event:", event |-> event] >>,
     promise |-> "undefined"]

\* An invocation of a handler: where it is, the entry it built, its local
\* array, how its promise settled; and, for the properties, the file when it
\* was called, whether it ran with no other invocation in progress, and how
\* it ended.
IdleInvocation ==
    [pc |-> "idle", logEntry |-> [timestamp |-> 0, event |-> "none"],
     logs |-> <<>>, promise |-> "pending",
     before |-> LogFile("absent", <<>>), alone |-> TRUE, outcome |-> "none"]

\* Entries already in the file: older than every new one, oldest first.
Existing(n) == [j \in 1..n |-> [timestamp |-> j - n - 1, event |-> "Stop"]]

InitLogFiles ==
    { LogFile("absent", <<>>), LogFile("invalid", <<>>), LogFile("notArray", <<>>) }
    \cup { LogFile("array", Existing(n)) : n \in 0..MaxExisting }

LogEvents == {"Stop", "SubagentStop"}

\* ---------------------------------------------------------- blockEnvFiles
\* A file path is a sequence of tokens: ".", "/" and names, a name standing
\* for a run of characters that holds neither "." nor "/".
MaxSuffixes == 2

\* The regular expressions carry the i flag.
Lower(token) ==
    CASE token = "ENV" -> "env"
      [] token = "EXAMPLE" -> "example"
      [] OTHER -> token

ExampleSuffixes == {"example", "sample", "template", "dist"}

\* ".env." starts at position i of the path
EnvDotAt(filePath, i) ==
    /\ i >= 1 /\ i + 2 <= Len(filePath)
    /\ filePath[i] = "."
    /\ Lower(filePath[i + 1]) = "env"
    /\ filePath[i + 2] = "."

\* /\.env\.(example|sample|template|dist)$/i ||
\* /\.env\..*\.(example|sample|template|dist)$/i
isExampleFile(filePath) ==
    LET n == Len(filePath)
    IN \/ /\ EnvDotAt(filePath, n - 3)
          /\ Lower(filePath[n]) \in ExampleSuffixes
       \/ \E i \in 1..(n - 4) :
             /\ EnvDotAt(filePath, i)
             /\ filePath[n - 1] = "."
             /\ Lower(filePath[n]) \in ExampleSuffixes

\* /\.env$/i || /\.env\.[^.]+$/i : [^.] takes every character but the dot,
\* the path separator included
isEnvFile(filePath) ==
    LET n == Len(filePath)
    IN \/ /\ n >= 2
          /\ filePath[n - 1] = "."
          /\ Lower(filePath[n]) = "env"
       \/ \E i \in 1..(n - 3) :
             /\ EnvDotAt(filePath, i)
             /\ \A j \in (i + 3)..n : filePath[j] # "."

\* The handler of blockEnvFiles: what it returns for a payload.  The four
\* tools it names all carry the path in tool_input.file_path; for another
\* tool filePath stays undefined.
blockEnvFiles(toolInput) ==
    LET named == toolInput.tool_name \in {"Read", "Write", "Edit", "MultiEdit"}
        filePath == IF named /\ "file_path" \in DOMAIN toolInput.tool_input
                    THEN toolInput.tool_input.file_path ELSE <<>>
    IN IF filePath = <<>> THEN [kind |-> "undefined"]
       ELSE IF isExampleFile(filePath) THEN [kind |-> "undefined"]
       ELSE IF isEnvFile(filePath)
       THEN [kind |-> "return",
             value |-> [decision |-> "block",
                        reason |-> <<"Access to .env files is not allowed. File: ">>
                                   \o filePath]]
       ELSE [kind |-> "undefined"]

\* File names that start with ".env": the name, then up to MaxSuffixes
\* suffixes.
EnvSuffixes == {"local", "production", "example"}

RECURSIVE Suffixed(_)
Suffixed(n) ==
    IF n = 0 THEN { <<>> }
    ELSE Suffixed(n - 1)
         \cup { s \o <<".", x>> : s \in Suffixed(n - 1), x \in EnvSuffixes }

EnvFileNames == { <<".", e>> \o s : e \in {"env", "ENV"}, s \in Suffixed(MaxSuffixes) }

OtherFileNames ==
    { <<"config", ".", "json">>, <<"README">>, <<".", "environment">>,
      <<".", "env", ".", "d", "/", "README">>, <<".", "env", "/", "config">> }

FilePaths ==
    { d \o f : d \in { <<>>, <<"src", "/">> }, f \in EnvFileNames \cup OtherFileNames }

EnvTools == {"Read", "Write", "Edit", "MultiEdit", "Bash"}

EnvPayloads ==
    { [tool_name |-> t, tool_input |-> [file_path |-> f]] :
         t \in EnvTools, f \in FilePaths \cup { <<>> } }
    \cup { [tool_name |-> t, tool_input |-> [command |-> <<"ls">>]] : t \in EnvTools }

\* ------------------------------------------------------------------- state
\* Reconciler: the scope and its settings file, the file before the last run,
\* the last run and the number of runs.
\* Dispatcher: the registry, the process arguments, whether the declaring
\* module is the entry point, the text on stdin, the position of the process,
\* the handlers still to call / in flight / called, the collected results,
\* the final result, whether a handler threw, the output channels, exit code.
\* CLI run: the options, the hook file of each scope, the settings document
\* of each scope now and before the run, the scopes whose document cannot be
\* written, the position in the list of scopes, what was logged for each
\* scope, and the exit code of the CLI.
\* Logging: the log file, the maxEventsStored option, the invocations of the
\* handler, what console.error printed, and the invocation that settled last.
\* blockEnvFiles: the payload the handler is called with and what it returned.
VARIABLES location, settingsFile, prevFile, lastOp, repeated, runs,
          hooks, argv, isMain, stdin, pc, pending, inflight, calls, results,
          finalResult, threw, stdout, stderr, exitCode, returned,
          options, hookFiles, docs, docsBefore, readOnly, scope, log, cliExit,
          logFile, maxEventsStored, invocations, console, lastSettled,
          envInput, envResult

rvars == <<location, settingsFile, prevFile, lastOp, repeated, runs>>
dvars == <<hooks, argv, isMain, stdin, pc, pending, inflight, calls, results,
           finalResult, threw, stdout, stderr, exitCode, returned>>
cvars == <<options, hookFiles, docs, docsBefore, readOnly, scope, log, cliExit>>
lvars == <<logFile, maxEventsStored, invocations, console, lastSettled>>
evars == <<envInput, envResult>>
vars == <<rvars, dvars, cvars, lvars, evars>>

NoOp == [kind |-> "none", cwd |-> ProjA, hookInfo |-> <<>>,
         threw |-> FALSE, wrote |-> FALSE, warned |-> FALSE]

Running == -1

ReconcilerIdle ==
    /\ location = "project"
    /\ settingsFile = AbsentFile
    /\ prevFile = AbsentFile
    /\ lastOp = NoOp
    /\ repeated = FALSE
    /\ runs = 0

ProcessStart ==
    /\ pending = <<>>
    /\ inflight = {}
    /\ calls = <<>>
    /\ results = <<>>
    /\ finalResult = <<>>
    /\ threw = FALSE
    /\ stdout = <<>>
    /\ stderr = <<>>
    /\ exitCode = Running
    /\ returned = <<>>

DispatcherIdle ==
    /\ hooks = RegEmpty
    /\ argv = [mode |-> "none"]
    /\ isMain = FALSE
    /\ stdin = [valid |-> FALSE]
    /\ pc = "idle"
    /\ ProcessStart

CliIdle ==
    /\ options = [remove |-> FALSE]
    /\ hookFiles = [type \in Locations |-> "absent"]
    /\ docs = [type \in Locations |-> AbsentFile]
    /\ docsBefore = docs
    /\ readOnly = {}
    /\ scope = 0
    /\ log = [type \in Locations |-> "none"]
    /\ cliExit = Running

EnvIdle ==
    /\ envInput = [tool_name |-> "Bash", tool_input |-> [command |-> <<"ls">>]]
    /\ envResult = [kind |-> "pending"]

LoggerIdle ==
    /\ logFile = LogFile("absent", <<>>)
    /\ maxEventsStored = 0
    /\ invocations = [i \in 1..MaxCalls |-> IdleInvocation]
    /\ console = <<>>
    /\ lastSettled = 0

\* ------------------------------------------------------ reconciler actions
Init ==
    /\ location \in Locations
    /\ settingsFile \in InitFiles
    /\ prevFile = settingsFile
    /\ lastOp = NoOp
    /\ repeated = FALSE
    /\ runs = 0
    /\ DispatcherIdle
    /\ CliIdle
    /\ LoggerIdle
    /\ EnvIdle

\* The project a project/local settings file belongs to; the user-global
\* file is shared by every project.
RunDirs == IF location = "user" THEN Projects ELSE {ProjA}

\* Bookkeeping of a run: the file before and after it, its arguments and
\* outcome, and whether it repeats the previous update with the same arguments.
Record(kind, cwd, hookInfo, out) ==
    /\ prevFile' = settingsFile
    /\ settingsFile' = out.file
    /\ lastOp' = [kind |-> kind, cwd |-> cwd, hookInfo |-> hookInfo,
                  threw |-> out.threw, wrote |-> out.wrote, warned |-> out.warned]
    /\ repeated' = (/\ kind = "update" /\ lastOp.kind = "update" /\ lastOp.wrote
                     /\ lastOp.cwd = cwd /\ lastOp.hookInfo = hookInfo)
    /\ runs' = runs + 1
    /\ UNCHANGED location
    /\ UNCHANGED dvars
    /\ UNCHANGED cvars
    /\ UNCHANGED lvars
    /\ UNCHANGED evars

\* updateHooks, scope whose hook file exists: describe, then reconcile.
Update ==
    /\ runs < MaxRuns
    /\ \E cwd \in RunDirs, registry \in Registries :
          LET hookInfo == GenerateSettings(registry)
          IN Record("update", cwd, hookInfo,
                    updateSettingsFile(settingsFile, compiledHookPath(location, cwd),
                                       hookInfo, location, cwd))

\* updateHooks, scope whose hook file is missing but whose settings file exists.
Cleanup ==
    /\ runs < MaxRuns
    /\ settingsFile.state # "absent"
    /\ \E cwd \in RunDirs :
          Record("cleanup", cwd, <<>>,
                 removeFromSettingsFile(settingsFile, location, cwd))

\* removeHooks, scope whose settings file exists.
Remove ==
    /\ runs < MaxRuns
    /\ settingsFile.state # "absent"
    /\ \E cwd \in RunDirs :
          Record("remove", cwd, <<>>,
                 removeFromSettingsFile(settingsFile, location, cwd))

Next == Update \/ Cleanup \/ Remove

Spec == Init /\ [][Next]_vars

\* ------------------------------------------------------ dispatcher actions
DispatchInit ==
    /\ ReconcilerIdle
    /\ hooks \in DeclaredRegistries
    /\ argv \in Argvs
    /\ isMain \in BOOLEAN
    /\ stdin \in Payloads
    /\ pc = "defineHooks"
    /\ ProcessStart
    /\ CliIdle
    /\ LoggerIdle
    /\ EnvIdle

\* process.exit(out.exitCode) after the writes of out
Exit(out, final, collected) ==
    /\ pc' = "exited"
    /\ stdout' = out.stdout
    /\ stderr' = out.stderr
    /\ exitCode' = out.exitCode
    /\ finalResult' = final
    /\ results' = collected
    /\ pending' = <<>>
    /\ inflight' = {}

\* Call the next handler(s) of the plan and suspend until they settle.
Call(plan, collected) ==
    LET batch == Batch(plan)
    IN /\ pc' = "handler"
       /\ inflight' = {batch[i] : i \in 1..Len(batch)}
       /\ calls' = calls \o [i \in 1..Len(batch) |->
                                [handler |-> batch[i], input |-> stdin]]
       /\ pending' = SubSeq(plan, Len(batch) + 1, Len(plan))
       /\ results' = collected
       /\ UNCHANGED <<finalResult, stdout, stderr, exitCode>>

\* Aggregation and output once every planned handler has settled.
Finish(collected) ==
    Exit(Output(Aggregate(collected), argv.hookType), Aggregate(collected), collected)

\* defineHooks: mode selection when the declaring module is loaded.
DefineHooks ==
    /\ pc = "defineHooks"
    /\ IF SelectMode(isMain, argv) = "describe"
       THEN /\ Exit(DescribeOutput(hooks), <<>>, <<>>)
            /\ UNCHANGED <<calls, returned>>
       ELSE /\ pc' = IF SelectMode(isMain, argv) = "invoke" THEN "readStdin"
                     ELSE "returned"
            /\ returned' = << hooks >>
            /\ UNCHANGED <<pending, inflight, calls, results, finalResult,
                           stdout, stderr, exitCode>>
    /\ UNCHANGED <<hooks, argv, isMain, stdin, threw>>
    /\ UNCHANGED rvars
    /\ UNCHANGED cvars
    /\ UNCHANGED lvars
    /\ UNCHANGED evars

\* runHookHandler from the end of stdin up to its first handler call (or to
\* its exit when no handler is called).
RunHookHandler ==
    /\ pc = "readStdin"
    /\ LET hookType == argv.hookType
           hookHandlers == HandlersOf(hooks, hookType)
       IN IF PayloadError(stdin, hookType) # <<>>
          THEN /\ Exit([stdout |-> <<>>, stderr |-> PayloadError(stdin, hookType),
                        exitCode |-> ExitCodeERROR], <<>>, <<>>)
               /\ UNCHANGED <<calls, threw>>
          ELSE IF NoHandlers(hookHandlers)
          THEN /\ Exit([stdout |-> <<>>, stderr |-> <<>>,
                        exitCode |-> ExitCodeSUCCESS], <<>>, <<>>)
               /\ UNCHANGED <<calls, threw>>
          ELSE IF /\ IsToolHookType(hookType)
                  /\ Truthy(argv, "matcher") /\ Truthy(argv, "index")
                  /\ "tool_name" \in DOMAIN stdin
                  /\ RegExpThrows(argv.matcher)
          THEN /\ Exit(HandlerError(<<>>), <<>>, <<>>)
               /\ UNCHANGED <<calls, threw>>
          ELSE LET plan == HandlersToRun(hookHandlers, argv, stdin)
               IN IF plan = <<>>
                  THEN Finish(<<>>) /\ UNCHANGED <<calls, threw>>
                  ELSE Call(plan, <<>>) /\ UNCHANGED threw
    /\ UNCHANGED <<hooks, argv, isMain, stdin, returned>>
    /\ UNCHANGED rvars
    /\ UNCHANGED cvars
    /\ UNCHANGED lvars
    /\ UNCHANGED evars

\* A called handler settles: it throws (or rejects), or returns a result;
\* runHookHandler resumes with the next call or with the aggregation.
HandlerSettles ==
    /\ pc = "handler"
    /\ \E h \in inflight, o \in Outcomes :
          IF o.kind = "throw"
          THEN /\ Exit(HandlerError(results), <<>>, results)
               /\ threw' = TRUE
               /\ UNCHANGED calls
          ELSE LET collected == IF o.kind = "return"
                                THEN Append(results, o.value) ELSE results
               IN /\ threw' = threw
                  /\ IF inflight # {h}
                     THEN /\ inflight' = inflight \ {h}
                          /\ results' = collected
                          /\ UNCHANGED <<pc, pending, calls, finalResult,
                                         stdout, stderr, exitCode>>
                     ELSE IF pending = <<>>
                          THEN Finish(collected) /\ UNCHANGED calls
                          ELSE Call(pending, collected)
    /\ UNCHANGED <<hooks, argv, isMain, stdin, returned>>
    /\ UNCHANGED rvars
    /\ UNCHANGED cvars
    /\ UNCHANGED lvars
    /\ UNCHANGED evars

DispatchNext == DefineHooks \/ RunHookHandler \/ HandlerSettles

DispatchSpec == DispatchInit /\ [][DispatchNext]_vars

\* ------------------------------------------------------------ CLI actions
CliInit ==
    /\ ReconcilerIdle
    /\ DispatcherIdle
    /\ options \in {[remove |-> b] : b \in BOOLEAN}
    /\ hookFiles \in [Locations -> HookFileStates]
    /\ docs \in {f \in [Locations -> UNION {ScopeDocs(type) : type \in Locations}] :
                     \A type \in Locations : f[type] \in ScopeDocs(type)}
    /\ docsBefore = docs
    /\ readOnly \in {{}} \cup {{type} : type \in Locations}
    /\ scope = 1
    /\ log = [type \in Locations |-> "none"]
    /\ cliExit = Running
    /\ LoggerIdle
    /\ EnvIdle

\* The scope is done (its outcome logged, its document as left on disk) and
\* the run goes on with the next scope, or ends normally after the last.
Continue(type, outcome, file) ==
    /\ docs' = [docs EXCEPT ![type] = file]
    /\ log' = [log EXCEPT ![type] = outcome]
    /\ scope' = scope + 1
    /\ cliExit' = IF scope = Len(Scopes) THEN ExitCodeSUCCESS ELSE Running

\* An exception leaves the loop: the catch clause of main logs it and calls
\* process.exit(1).
Abort(type) ==
    /\ log' = [log EXCEPT ![type] = "Error:"]
    /\ cliExit' = ExitCodeERROR
    /\ UNCHANGED <<docs, scope>>

\* removeFromSettingsFile on the document of the scope; a write that fails is
\* caught like any other error.
CleanScope(type, done) ==
    LET out == removeFromSettingsFile(docs[type], type, ProjA)
    IN IF docs[type].state = "absent"
       THEN Continue(type, "skipped", docs[type])
       ELSE IF out.warned \/ (out.wrote /\ type \in readOnly)
       THEN Continue(type, "Error updating", docs[type])
       ELSE Continue(type, done, out.file)

\* One pass of the loop of updateHooks.
UpdateScope ==
    /\ ~options.remove
    /\ cliExit = Running
    /\ scope \in 1..Len(Scopes)
    /\ LET type == Scopes[scope]
           out == updateSettingsFile(docs[type], compiledHookPath(type, ProjA),
                                     GenerateSettings(CliRegistry), type, ProjA)
       IN CASE hookFiles[type] = "compileError" ->
                  Continue(type, "Failed to compile", docs[type])
            [] hookFiles[type] = "describeError" ->
                  Continue(type, "Failed to load hooks", docs[type])
            [] hookFiles[type] = "ok" ->
                  IF out.threw \/ type \in readOnly
                  THEN Abort(type)
                  ELSE Continue(type, "Updated", out.file)
            [] hookFiles[type] = "absent" -> CleanScope(type, "cleaned")
    /\ UNCHANGED <<options, hookFiles, docsBefore, readOnly>>
    /\ UNCHANGED rvars
    /\ UNCHANGED dvars
    /\ UNCHANGED lvars
    /\ UNCHANGED evars

\* One of the three blocks of removeHooks.
RemoveScope ==
    /\ options.remove
    /\ cliExit = Running
    /\ scope \in 1..Len(Scopes)
    /\ CleanScope(Scopes[scope], "removed")
    /\ UNCHANGED <<options, hookFiles, docsBefore, readOnly>>
    /\ UNCHANGED rvars
    /\ UNCHANGED dvars
    /\ UNCHANGED lvars
    /\ UNCHANGED evars

CliNext == UpdateScope \/ RemoveScope

CliSpec == CliInit /\ [][CliNext]_vars

\* ----------------------------------------------------------- logging actions
\* One log file, one handler option, and MaxCalls invocations of the handler,
\* each in a hook process of its own; the invocations are called in the order
\* of their numbers, and the clock of the timestamps is that number.
LogInit ==
    /\ ReconcilerIdle
    /\ DispatcherIdle
    /\ CliIdle
    /\ logFile \in InitLogFiles
    /\ maxEventsStored \in 0..MaxStored
    /\ invocations = [i \in 1..MaxCalls |-> IdleInvocation]
    /\ console = <<>>
    /\ lastSettled = 0
    /\ EnvIdle

InProgress(i) == invocations[i].pc \in {"readFile", "writeFile"}

\* The handler is called: it builds logEntry and starts fs.readFile.
HandlerCalled ==
    \E i \in 1..MaxCalls, event \in LogEvents :
        /\ invocations[i].pc = "idle"
        /\ \A j \in 1..(i - 1) : invocations[j].pc # "idle"
        /\ invocations' =
              [j \in 1..MaxCalls |->
                 IF j = i
                 THEN [IdleInvocation EXCEPT
                          !.pc = "readFile",
                          !.logEntry = [timestamp |-> i, event |-> event],
                          !.before = logFile,
                          !.alone = \A k \in 1..MaxCalls : ~InProgress(k)]
                 ELSE IF InProgress(j)
                      THEN [invocations[j] EXCEPT !.alone = FALSE]
                      ELSE invocations[j]]
        /\ UNCHANGED <<logFile, maxEventsStored, console, lastSettled>>
        /\ UNCHANGED <<rvars, dvars, cvars, evars>>

\* fs.readFile settles: the inner try leaves the parsed array or the empty
\* one; the entry is pushed and the array rotated, and fs.writeFile starts.
\* A parsed value without push ends the handler in its catch clause.
ReadFileSettles ==
    \E i \in 1..MaxCalls :
        /\ invocations[i].pc = "readFile"
        /\ IF PushThrows(logFile)
           THEN LET caught == CatchError(invocations[i].logEntry.event)
                IN /\ invocations' = [invocations EXCEPT
                                         ![i].pc = "settled",
                                         ![i].promise = caught.promise,
                                         ![i].outcome = "pushFailed"]
                   /\ console' = console \o caught.console
                   /\ lastSettled' = i
           ELSE /\ invocations' = [invocations EXCEPT
                                      ![i].pc = "writeFile",
                                      ![i].logs = Rotate(Append(ReadLogs(logFile),
                                                                invocations[i].logEntry),
                                                         maxEventsStored)]
                /\ UNCHANGED <<console, lastSettled>>
        /\ UNCHANGED <<logFile, maxEventsStored>>
        /\ UNCHANGED <<rvars, dvars, cvars, evars>>

\* fs.writeFile settles: the file holds the array of the invocation, or the
\* write failed and the catch clause reports it.
WriteFileSettles ==
    \E i \in 1..MaxCalls, written \in BOOLEAN :
        /\ invocations[i].pc = "writeFile"
        /\ IF written
           THEN /\ logFile' = LogFile("array", invocations[i].logs)
                /\ invocations' = [invocations EXCEPT
                                      ![i].pc = "settled",
                                      ![i].promise = "undefined",
                                      ![i].outcome = "written"]
                /\ UNCHANGED console
           ELSE LET caught == CatchError(invocations[i].logEntry.event)
                IN /\ invocations' = [invocations EXCEPT
                                         ![i].pc = "settled",
                                         ![i].promise = caught.promise,
                                         ![i].outcome = "writeFailed"]
                   /\ console' = console \o caught.console
                   /\ UNCHANGED logFile
        /\ lastSettled' = i
        /\ UNCHANGED maxEventsStored
        /\ UNCHANGED <<rvars, dvars, cvars, evars>>

LogNext == HandlerCalled \/ ReadFileSettles \/ WriteFileSettles

LogSpec == LogInit /\ [][LogNext]_vars

\* ----------------------------------------------------- blockEnvFiles actions
\* One call of the handler with a PreToolUse payload.
EnvInit ==
    /\ ReconcilerIdle
    /\ DispatcherIdle
    /\ CliIdle
    /\ LoggerIdle
    /\ envInput \in EnvPayloads
    /\ envResult = [kind |-> "pending"]

BlockEnvFiles ==
    /\ envResult.kind = "pending"
    /\ envResult' = blockEnvFiles(envInput)
    /\ UNCHANGED envInput
    /\ UNCHANGED <<rvars, dvars, cvars, lvars>>

EnvNext == BlockEnvFiles

EnvSpec == EnvInit /\ [][EnvNext]_vars

\* ------------------------------------------------- reconciler: properties
HooksOf(file) ==
    LET parsed == JSONParse(file.top)
    IN IF file.state = "json" /\ ObjHas(parsed, "hooks")
       THEN ObjGet(parsed, "hooks") ELSE <<>>

ListOf(hooksObj, hookType) ==
    IF ObjHas(hooksObj, hookType) THEN ObjGet(hooksObj, hookType) ELSE <<>>

OldHooks == HooksOf(prevFile)
NewHooks == HooksOf(settingsFile)
OpMarker == getManagedMarker(location, lastOp.cwd)
OpCommandPath ==
    IF location = "user" THEN compiledHookPath(location, lastOp.cwd)
    ELSE <<"./">> \o COMPILED_HOOK_FILES(location)

HasHooksList(e) == "hooks" \in DOMAIN e

\* The managed test as the specification words it.
OneCommandWithMarker(e, marker) ==
    /\ HasHooksList(e)
    /\ Cardinality(DOMAIN e.hooks) = 1
    /\ \E i \in 0..(Len(e.hooks[1].command) - Len(marker)) :
          SubSeq(e.hooks[1].command, i + 1, i + Len(marker)) = marker

DescriptorsOf(hookType) == ListOf(lastOp.hookInfo, hookType)

\* C1: running update again with the same description and marker on its own
\* output leaves the document exactly as the first run wrote it (same entries
\* in the same order, same event-type keys in the same order).
C1_Idempotence == repeated => settingsFile = prevFile

C1_Witness ==
    /\ repeated
    /\ lastOp.wrote
    /\ \E i \in 1..Len(NewHooks) :
          /\ Len(DescriptorsOf(NewHooks[i].k)) >= 2
          /\ \E j \in 1..Len(NewHooks[i].v) :
                ~OneCommandWithMarker(NewHooks[i].v[j], OpMarker)

Survivors(hookType) ==
    LET new == ListOf(NewHooks, hookType)
        generated == IF lastOp.kind = "update" /\ lastOp.wrote
                     THEN Len(DescriptorsOf(hookType)) ELSE 0
    IN SubSeq(new, 1, Len(new) - generated)

GeneratedBy(e, cwd) ==
    LET marker == getManagedMarker("user", cwd)
    IN /\ HasHooksList(e)
       /\ Len(e.hooks) = 1
       /\ Len(e.hooks[1].command) >= Len(marker)
       /\ SubSeq(e.hooks[1].command,
                 Len(e.hooks[1].command) - Len(marker) + 1,
                 Len(e.hooks[1].command)) = marker

\* C4: in the shared user-global document, a run from project P never removes
\* or alters the entries another project Q generated.
C4_CrossProjectIsolation ==
    (location = "user" /\ lastOp.kind # "none") =>
        \A q \in Projects \ {lastOp.cwd} :
            \A i \in 1..Len(OldHooks) :
                SelectSeq(OldHooks[i].v, LAMBDA e : GeneratedBy(e, q))
                  = SelectSeq(ListOf(NewHooks, OldHooks[i].k),
                              LAMBDA e : GeneratedBy(e, q))

\* The members of a document outside the hooks sub-tree, in document order.
OutsideHooks(file) == SelectSeq(file.top, LAMBDA m : m.k # "hooks")

\* C5: update, cleanup and remove leave everything outside the hooks sub-tree
\* of a parseable document unchanged: same keys, same values, same key order.
C5_Frame ==
    (lastOp.kind # "none" /\ prevFile.state = "json") =>
        OutsideHooks(settingsFile) = OutsideHooks(prevFile)

\* C14: an update leaves, for every event type of the existing document that
\* the description does not name, exactly its non-managed entries, unchanged
\* and in order; when none remains the event-type key is gone from the
\* document (it is never kept with an empty list).
C14_AbsentEventTypes ==
    (lastOp.kind = "update" /\ lastOp.wrote) =>
        \A i \in 1..Len(OldHooks) :
            LET hookType == OldHooks[i].k
                kept == SelectSeq(OldHooks[i].v,
                                  LAMBDA e : ~OneCommandWithMarker(e, OpMarker))
            IN ~ObjHas(lastOp.hookInfo, hookType) =>
                  /\ ListOf(NewHooks, hookType) = kept
                  /\ ObjHas(NewHooks, hookType) <=> kept # <<>>

C14_Witness ==
    /\ lastOp.kind = "update" /\ lastOp.wrote
    /\ ~ObjHas(lastOp.hookInfo, "PreToolUse")
    /\ ~ObjHas(lastOp.hookInfo, "Stop")
    /\ ListOf(OldHooks, "PreToolUse") = << StaleManaged >>
    /\ ListOf(OldHooks, "Stop") = << UserSession >>
    /\ ~ObjHas(NewHooks, "PreToolUse")
    /\ ListOf(NewHooks, "Stop") = << UserSession >>

\* The entries of the new list of an event type that pass the managed test.
ManagedNow(hookType) ==
    SelectSeq(ListOf(NewHooks, hookType), LAMBDA e : OneCommandWithMarker(e, OpMarker))

\* C15: after an update, a tool event type of the description has as many
\* managed entries as descriptors, the j-th carrying the j-th descriptor's
\* matcher and one command that embeds the runner path, the invoke-mode flag,
\* the event type, that matcher, that index and the scope's marker; a session
\* event type of the description has exactly one managed entry, without a
\* matcher, whatever its handler count.
C15_Completeness ==
    (lastOp.kind = "update" /\ lastOp.wrote) =>
        \A i \in 1..Len(lastOp.hookInfo) :
            LET hookType == lastOp.hookInfo[i].k
                descriptors == lastOp.hookInfo[i].v
                managed == ManagedNow(hookType)
            IN IF IsToolHookType(hookType)
               THEN /\ Len(managed) = Len(descriptors)
                    /\ \A j \in 1..Len(descriptors) :
                          /\ "matcher" \in DOMAIN managed[j]
                          /\ managed[j].matcher = descriptors[j].matcher
                          /\ Len(managed[j].hooks) = 1
                          /\ Includes(managed[j].hooks[1].command,
                                Quote(OpCommandPath) \o <<" __run_hook ", hookType, " ">>
                                \o Quote(descriptors[j].matcher) \o <<" ">>
                                \o Quote(<<ToString(descriptors[j].index)>>))
                          /\ Includes(managed[j].hooks[1].command, OpMarker)
               ELSE /\ Len(managed) = 1
                    /\ "matcher" \notin DOMAIN managed[1]
                    /\ Len(managed[1].hooks) = 1
                    /\ Includes(managed[1].hooks[1].command,
                          Quote(OpCommandPath) \o <<" __run_hook ", hookType>>)
                    /\ Includes(managed[1].hooks[1].command, OpMarker)

C15_Witness ==
    /\ lastOp.kind = "update" /\ lastOp.wrote
    /\ Len(DescriptorsOf("PreToolUse")) = 2
    /\ Len(DescriptorsOf("Stop")) = 1
    /\ DescriptorsOf("Stop")[1].count = 2
    /\ \E j \in 1..Len(ListOf(OldHooks, "PreToolUse")) :
          OneCommandWithMarker(ListOf(OldHooks, "PreToolUse")[j], OpMarker)
    /\ Len(ManagedNow("PreToolUse")) = 2
    /\ Len(ListOf(NewHooks, "PreToolUse")) = 3
    /\ Len(ManagedNow("Stop")) = 1

\* C19: an update that finds a settings document it cannot parse goes on as
\* though the document were empty: it warns, does not fail, and writes a
\* document that holds the generated entries of the description and nothing
\* else.
C19_UnparseableDocument ==
    (lastOp.kind = "update" /\ prevFile.state = "corrupt") =>
        /\ lastOp.warned
        /\ ~lastOp.threw
        /\ lastOp.wrote
        /\ settingsFile.state = "json"
        /\ OutsideHooks(settingsFile) = <<>>
        /\ Len(NewHooks) = Len(lastOp.hookInfo)
        /\ \A i \in 1..Len(lastOp.hookInfo) :
              /\ NewHooks[i].k = lastOp.hookInfo[i].k
              /\ NewHooks[i].v = GeneratedEntries(OpCommandPath, lastOp.hookInfo[i].k,
                                                 lastOp.hookInfo[i].v, OpMarker)

C19_Witness ==
    /\ lastOp.kind = "update"
    /\ prevFile.state = "corrupt"
    /\ lastOp.warned
    /\ settingsFile.state = "json"
    /\ Len(ManagedNow("PreToolUse")) = 2
    /\ Len(ManagedNow("Stop")) = 1

\* The entries the last update appended to the list of the event type.
GeneratedNow(hookType) ==
    LET new == ListOf(NewHooks, hookType)
    IN SubSeq(new, Len(new) - Len(DescriptorsOf(hookType)) + 1, Len(new))

NodeExitCodes == {ExitCodeSUCCESS, ExitCodeERROR, ExitCodeBLOCKING_ERROR}

\* C20: every command line an update generated, run while its runner file is
\* missing, does not start the dispatcher, writes a diagnostic to stderr and
\* ends with a non-zero exit code (and it does start the dispatcher when the
\* runner file is there).
C20_MissingRunnerGuard ==
    (lastOp.kind = "update" /\ lastOp.wrote) =>
        \A i \in 1..Len(lastOp.hookInfo) :
            LET generated == GeneratedNow(lastOp.hookInfo[i].k)
            IN \A j \in 1..Len(generated) : \A code \in NodeExitCodes :
                  LET command == generated[j].hooks[1].command
                      missing == RunCommand(command, {}, code)
                  IN /\ ~missing.started
                     /\ missing.stderr # <<>>
                     /\ missing.exitCode # 0
                     /\ RunCommand(command, {OpCommandPath}, code).started

C20_Witness ==
    /\ lastOp.kind = "update" /\ lastOp.wrote
    /\ location = "user"
    /\ Len(GeneratedNow("PreToolUse")) = 2
    /\ Len(GeneratedNow("Stop")) = 1
    /\ RunCommand(GeneratedNow("Stop")[1].hooks[1].command, {}, ExitCodeSUCCESS).exitCode = 1
    /\ RunCommand(GeneratedNow("PreToolUse")[2].hooks[1].command,
                  {compiledHookPath("user", lastOp.cwd)}, ExitCodeSUCCESS).exitCode = 0

\* ---------------------------------------------------- CLI run: properties
RunOver == cliExit # Running

\* The hooks sub-tree of the scope's document holds what it held before the
\* run without the entries managed under the scope's marker, and nothing else.
OnlyManagedRemoved(type) ==
    LET marker == getManagedMarker(type, ProjA)
        old == HooksOf(docsBefore[type])
        new == HooksOf(docs[type])
    IN /\ \A i \in 1..Len(old) :
             ListOf(new, old[i].k) =
                SelectSeq(old[i].v, LAMBDA e : ~OneCommandWithMarker(e, marker))
       /\ \A i \in 1..Len(new) : ObjHas(old, new[i].k)

\* C16: in an update run, a scope without hook file whose (writable) document
\* exists has exactly the entries managed under its marker removed from the
\* document, nothing generated and everything else left as it was; a scope
\* with neither hook file nor document gets no document.
C16_OrphanCleanup ==
    (~options.remove /\ RunOver) =>
        \A type \in Locations \ readOnly :
            hookFiles[type] = "absent" =>
                IF docsBefore[type].state = "absent"
                THEN docs[type] = AbsentFile
                ELSE /\ docs[type].state = docsBefore[type].state
                     /\ OnlyManagedRemoved(type)
                     /\ OutsideHooks(docs[type]) = OutsideHooks(docsBefore[type])

\* C17: after a remove run, every existing (writable) scope document holds
\* no entry managed under its scope's marker, no entry was added, and the
\* user-authored entries are all there in their order, whatever the hook
\* files are.
C17_RemoveAll ==
    (options.remove /\ RunOver) =>
        \A type \in Locations \ readOnly :
            IF docsBefore[type].state = "absent"
            THEN docs[type] = AbsentFile
            ELSE docs[type].state = docsBefore[type].state /\ OnlyManagedRemoved(type)

\* C18: in an update run, no failure of a scope (compilation, describe mode,
\* reading, reconciling or writing its document) keeps the scopes after it
\* from being processed: when the run is over every scope has been processed
\* and has its outcome logged.
C18_FailureIsolation ==
    (~options.remove /\ RunOver) => \A type \in Locations : log[type] # "none"

\* ------------------------------------------------- dispatcher: properties
InvokeMode == isMain /\ argv.mode = "__run_hook"

\* The payload is well formed and of the event type of the arguments.
PayloadFits == stdin.valid /\ stdin.hook_event_name = argv.hookType

IsBlock(r) == "decision" \in DOMAIN r /\ r.decision = "block"

\* The Tool Matcher contract: the tool name satisfies the pattern as a regular
\* expression (a pattern that does not compile matches nothing), or equals it.
Matches(pattern, toolName) ==
    \/ ~RegExpThrows(pattern) /\ RegExpTest(pattern, toolName)
    \/ toolName = pattern

\* C6: a tool event whose tool name matches the matcher of the arguments runs
\* exactly the handler at the index of the arguments, once, and nothing else;
\* a tool name that does not match runs no handler, exit code 0, no output.
C6_ToolDispatch ==
    (/\ pc = "exited" /\ InvokeMode /\ IsToolHookType(argv.hookType)
     /\ "matcher" \in DOMAIN argv /\ "index" \in DOMAIN argv
     /\ PayloadFits /\ "tool_name" \in DOMAIN stdin
     /\ ParseInt(argv.index) + 1 \in 1..Len(HandlersOf(hooks, argv.hookType))
     /\ IsToolDef(HandlersOf(hooks, argv.hookType)[ParseInt(argv.index) + 1]))
    => IF Matches(argv.matcher, stdin.tool_name)
       THEN calls = << [handler |-> ParseInt(argv.index) + 1, input |-> stdin] >>
       ELSE calls = <<>> /\ exitCode = ExitCodeSUCCESS /\ stdout = <<>>

C8_Aggregation ==
    (pc = "exited" /\ InvokeMode /\ exitCode # ExitCodeERROR) =>
        IF \E i \in 1..Len(results) : IsBlock(results[i])
        THEN finalResult =
               << results[CHOOSE i \in 1..Len(results) :
                            /\ IsBlock(results[i])
                            /\ \A j \in 1..(i - 1) : ~IsBlock(results[j])] >>
        ELSE IF results # <<>> THEN finalResult = << results[1] >>
        ELSE finalResult = <<>>

C8_Witness ==
    /\ pc = "exited" /\ InvokeMode
    /\ Len(results) = 2
    /\ results[1] = [decision |-> "approve"]
    /\ IsBlock(results[2])
    /\ finalResult = << results[2] >>

HasReason(r) == "reason" \in DOMAIN r /\ r.reason # ""

C10_HandlerFailure ==
    threw => /\ pc = "exited"
             /\ exitCode = ExitCodeERROR
             /\ stderr # <<>>
             /\ stdout = <<>>

C10_Witness ==
    /\ threw
    /\ pc = "exited"
    /\ Len(calls) = 2
    /\ Len(results) = 1
    /\ IsBlock(results[1])

\* C11: in invoke mode a payload that is not JSON, or whose hook_event_name
\* is not the event type of the arguments, ends the process with exit code 1
\* and a validation diagnostic on stderr, nothing on stdout and no handler
\* called; the registry plays no part (the bindings are not looked up).
C11_PayloadValidation ==
    (pc = "exited" /\ InvokeMode /\ ~PayloadFits) =>
        /\ exitCode = ExitCodeERROR
        /\ stderr \in { << "Error: Invalid JSON input:" >>, << "Error: Expected hook" >> }
        /\ stdout = <<>>
        /\ calls = <<>>

\* A payload of another event type, for an event type without bindings (the
\* silent exit would apply if the bindings were looked up first).
C11_Witness ==
    /\ pc = "exited" /\ InvokeMode
    /\ stdin.valid /\ stdin.hook_event_name # argv.hookType
    /\ HandlersOf(hooks, argv.hookType) = <<>>
    /\ HandlersOf(hooks, stdin.hook_event_name) # <<>>
    /\ exitCode = ExitCodeERROR

\* C12: an event type without registered bindings, invoked with a well-formed
\* payload of that type, exits with code 0, prints nothing and calls no
\* handler.
C12_SilentNoOp ==
    (/\ pc = "exited" /\ InvokeMode /\ PayloadFits
     /\ HandlersOf(hooks, argv.hookType) = <<>>)
    => /\ exitCode = ExitCodeSUCCESS
       /\ stdout = <<>>
       /\ stderr = <<>>
       /\ calls = <<>>

C12_Witness ==
    /\ pc = "exited" /\ InvokeMode /\ PayloadFits
    /\ hooks # RegEmpty
    /\ HandlersOf(hooks, argv.hookType) = <<>>
    /\ "matcher" \in DOMAIN argv
    /\ exitCode = ExitCodeSUCCESS

\* C13: with a matcher and an index in the arguments, the handler at the index
\* runs exactly when the tool name satisfies the matcher as a regular
\* expression or equals it literally; a matcher that does not compile matches
\* nothing but its literal self and is never fatal: the run is then a no-op
\* with exit code 0.
C13_MatcherSemantics ==
    (/\ pc = "exited" /\ InvokeMode /\ IsToolHookType(argv.hookType)
     /\ Truthy(argv, "matcher") /\ Truthy(argv, "index")
     /\ PayloadFits /\ "tool_name" \in DOMAIN stdin
     /\ ParseInt(argv.index) + 1 \in 1..Len(HandlersOf(hooks, argv.hookType))
     /\ IsToolDef(HandlersOf(hooks, argv.hookType)[ParseInt(argv.index) + 1]))
    => IF Matches(argv.matcher, stdin.tool_name)
       THEN Len(calls) = 1 /\ calls[1].handler = ParseInt(argv.index) + 1
       ELSE /\ calls = <<>>
            /\ exitCode = ExitCodeSUCCESS
            /\ stdout = <<>>
            /\ stderr = <<>>

DescribeMode == isMain /\ argv.mode = "__generate_settings"

\* C21: in describe mode the process never waits for stdin and calls no
\* handler: the one step of defineHooks prints exactly the description of the
\* registry (the empty description for an empty registry) and exits with
\* code 0, whatever is or is not on stdin.
C21_DescribeMode ==
    DescribeMode =>
        /\ pc \in {"defineHooks", "exited"}
        /\ calls = <<>>
        /\ inflight = {}
        /\ pc = "exited" =>
              /\ stdout = << GenerateSettings(hooks) >>
              /\ stderr = <<>>
              /\ exitCode = ExitCodeSUCCESS
              /\ (hooks = RegEmpty => stdout = << <<>> >>)

C21_Witness ==
    /\ DescribeMode
    /\ pc = "exited"
    /\ hooks = RegEmpty
    /\ ~stdin.valid
    /\ stdout = << <<>> >>
    /\ exitCode = ExitCodeSUCCESS

\* Whether invoke mode, called as the descriptor d of event type hookType
\* advertises, runs a handler for some payload of that event type.
RunsSomething(hookType, d) ==
    LET args == IF IsToolHookType(hookType)
                THEN [mode |-> "__run_hook", hookType |-> hookType,
                      matcher |-> d.matcher, index |-> << ToString(d.index) >>]
                ELSE [mode |-> "__run_hook", hookType |-> hookType]
    IN \E input \in Payloads :
          /\ input.valid
          /\ input.hook_event_name = hookType \/ IsToolHookType(hookType)
          /\ IsToolHookType(hookType) => "tool_name" \in DOMAIN input
          /\ HandlersToRun(HandlersOf(hooks, hookType), args, input) # <<>>

\* C22: the description printed in describe mode holds, for a tool event
\* type, one descriptor per registered binding, in registration order, with
\* the binding's matcher and its position; for a session event type with a
\* handler, one descriptor with the handler count; and no key for an event
\* type for which invoke mode finds no binding to run.
C22_FaithfulDescription ==
    (DescribeMode /\ pc = "exited") =>
        LET description == stdout[1]
        IN /\ \A i \in 1..Len(hooks) :
                 LET hookType == hooks[i].k
                     handlers == hooks[i].v
                     descriptors == ListOf(description, hookType)
                 IN IF IsToolHookType(hookType)
                    THEN /\ Len(descriptors) = Len(handlers)
                         /\ \A j \in 1..Len(handlers) :
                               /\ IsToolDef(handlers[j])
                               /\ descriptors[j].matcher = handlers[j].matcher
                               /\ descriptors[j].index = j - 1
                    ELSE handlers # <<>> =>
                            descriptors = << [handler |-> hookType,
                                              count |-> Len(handlers)] >>
           /\ \A i \in 1..Len(description) :
                 \E j \in 1..Len(description[i].v) :
                    RunsSomething(description[i].k, description[i].v[j])

\* A binding that does not fit its event type: a tool event without matcher,
\* or a session event with one.
MalformedBinding(hookType, binding) ==
    IF IsToolHookType(hookType) THEN ~IsToolDef(binding) ELSE IsToolDef(binding)

Malformed(registry) ==
    \E i \in 1..Len(registry) : \E j \in 1..Len(registry[i].v) :
        MalformedBinding(registry[i].k, registry[i].v[j])

\* C23: a registry with a malformed binding is refused when it is declared:
\* defineHook does not hand the binding back, defineHooks does not return
\* the registry and prints no description of it, and an error is reported.
C23_DeclarationErrors ==
    (Malformed(hooks) /\ pc # "defineHooks") =>
        /\ \A i \in 1..Len(hooks) : \A j \in 1..Len(hooks[i].v) :
              MalformedBinding(hooks[i].k, hooks[i].v[j]) =>
                  defineHook(hooks[i].k, hooks[i].v[j]) # hooks[i].v[j]
        /\ returned = <<>>
        /\ stdout = <<>>
        /\ stderr # <<>>

\* The process is not a hooks CLI run: the declaring module is not the entry
\* point, or the first argument names neither mode.
OutsideCli ==
    \/ ~isMain
    \/ argv.mode \notin {"__generate_settings", "__run_hook"}

\* C24: outside CLI mode defineHooks calls no handler, reads no input, writes
\* nothing, leaves the process running and returns the registry it was given.
C24_LibraryUse ==
    OutsideCli =>
        /\ pc \in {"defineHooks", "returned"}
        /\ calls = <<>>
        /\ inflight = {}
        /\ stdout = <<>>
        /\ stderr = <<>>
        /\ exitCode = Running
        /\ pc = "returned" => returned = << hooks >>

C24_Witness ==
    /\ ~isMain
    /\ argv.mode = "__run_hook"
    /\ hooks = RegTools
    /\ pc = "returned"
    /\ returned = << RegTools >>
    /\ exitCode = Running

\* An entry the run must leave alone: whatever its shape, it is not an entry
\* with exactly one command that holds the marker of the run.
UserAuthored(e) == ~OneCommandWithMarker(e, OpMarker)

\* C25: on every parseable document, update and remove run to completion
\* (no exception, no error reported, update writes the document) and the
\* user-authored entries of every event type, of any shape, are still there,
\* unchanged and in order.
C25_UserContentSurvives ==
    (lastOp.kind \in {"update", "remove"} /\ prevFile.state = "json") =>
        /\ ~lastOp.threw
        /\ ~lastOp.warned
        /\ lastOp.kind = "update" => lastOp.wrote
        /\ settingsFile.state = "json"
        /\ \A i \in 1..Len(OldHooks) :
              SelectSeq(OldHooks[i].v, UserAuthored)
                 = SelectSeq(ListOf(NewHooks, OldHooks[i].k), UserAuthored)

\* The (matcher, index) arguments of a tool event run name no registered
\* binding: nothing is registered at that position, or what is registered
\* there has another matcher.
LookupFails ==
    LET hookHandlers == HandlersOf(hooks, argv.hookType)
        i == ParseInt(argv.index) + 1
    IN \/ i \notin 1..Len(hookHandlers)
       \/ ~IsToolDef(hookHandlers[i])
       \/ hookHandlers[i].matcher # argv.matcher

\* C26: an invoke-mode run for a tool event whose arguments name no
\* registered binding calls no handler and exits with an error message on
\* stderr and exit code 1 (the payload is well formed, the event type has
\* bindings and the matcher compiles, so that no other rule decides the run).
C26_LookupFailure ==
    ( /\ InvokeMode
      /\ IsToolHookType(argv.hookType)
      /\ Truthy(argv, "matcher") /\ Truthy(argv, "index")
      /\ PayloadFits /\ "tool_name" \in DOMAIN stdin
      /\ ~NoHandlers(HandlersOf(hooks, argv.hookType))
      /\ ~RegExpThrows(argv.matcher)
      /\ LookupFails ) =>
        /\ calls = <<>>
        /\ pc = "exited" => (stderr # <<>> /\ exitCode = ExitCodeERROR)

\* ------------------------------------------------------ logging: properties
Settled(i) == invocations[i].pc = "settled"

\* The invocation that settled last, when it ran from call to end with no
\* other invocation in progress and its write went through.
SequentialWrite(i) ==
    /\ i = lastSettled
    /\ invocations[i].alone
    /\ invocations[i].outcome = "written"

Min(a, b) == IF a < b THEN a ELSE b

\* The last n elements of a sequence, as the specification words the rotation.
MostRecent(entries, n) == SubSeq(entries, Len(entries) - n + 1, Len(entries))

\* C27: after a sequential call on a log of n entries, with any non-negative
\* maxEventsStored, the file holds at most maxEventsStored entries: the last
\* min(n + 1, maxEventsStored) of the existing entries followed by the new one.
C27_BoundedRotation ==
    \A i \in 1..MaxCalls :
        (SequentialWrite(i) /\ invocations[i].before.state \in {"absent", "array"}) =>
            LET all == Append(invocations[i].before.logs, invocations[i].logEntry)
            IN /\ logFile.state = "array"
               /\ Len(logFile.logs) <= maxEventsStored
               /\ logFile.logs = MostRecent(all, Min(Len(all), maxEventsStored))

\* C28: when every invocation has written, however their steps interleaved,
\* and the log had room for them, every new entry is in the file after the
\* existing ones.
C28_NoLostWrites ==
    ( /\ \A i \in 1..MaxCalls : Settled(i) /\ invocations[i].outcome = "written"
      /\ invocations[1].before.state \in {"absent", "array"}
      /\ Len(invocations[1].before.logs) + MaxCalls <= maxEventsStored ) =>
        /\ logFile.state = "array"
        /\ Len(logFile.logs) = Len(invocations[1].before.logs) + MaxCalls
        /\ \A i \in 1..MaxCalls :
              \E j \in 1..Len(logFile.logs) : logFile.logs[j] = invocations[i].logEntry

\* The exit code of a dispatch whose only handler is this invocation: a
\* rejected handler ends in the catch clause of runHookHandler, a handler
\* that resolved with undefined adds nothing to the results.
DispatchExitCode(i) ==
    IF invocations[i].promise = "rejected"
    THEN HandlerError(<<>>).exitCode
    ELSE Output(Aggregate(<<>>), invocations[i].logEntry.event).exitCode

Failed(i) == invocations[i].outcome \in {"pushFailed", "writeFailed"}

C30_CorruptedLogRecovery ==
    \A i \in 1..MaxCalls :
        ( /\ i = lastSettled
          /\ invocations[i].alone
          /\ invocations[i].before.state \in {"absent", "invalid", "notArray"}
          /\ invocations[i].outcome # "writeFailed" ) =>
            logFile = LogFile("array", << invocations[i].logEntry >>)

\* ------------------------------------------- reconciler: further properties
\* C32: every command line an update generated, run while its runner file
\* exists, ends with exactly the exit code of the dispatcher (2 for a blocking
\* decision) and prints the guard's diagnostic for none of them.
C32_ExitStatusPropagation ==
    (lastOp.kind = "update" /\ lastOp.wrote) =>
        \A i \in 1..Len(lastOp.hookInfo) :
            LET generated == GeneratedNow(lastOp.hookInfo[i].k)
            IN \A j \in 1..Len(generated) : \A code \in NodeExitCodes :
                  LET run == RunCommand(generated[j].hooks[1].command,
                                        {OpCommandPath}, code)
                  IN /\ run.started
                     /\ run.exitCode = code
                     /\ run.stderr = <<>>

\* C35: no document that an update, cleanup or remove run wrote has an event
\* type with an empty list in its hooks sub-tree, whatever the description
\* (one that lists an event type with no descriptors included).
C35_NoEmptyEventLists ==
    (lastOp.kind # "none" /\ lastOp.wrote) =>
        \A i \in 1..Len(NewHooks) : NewHooks[i].v # <<>>

\* The document has a hooks sub-tree in which no entry passes the managed
\* test under the marker and no event type has an empty list.
CleanDocument(file, marker) ==
    /\ file.state = "json"
    /\ ObjHas(file.top, "hooks")
    /\ \A i \in 1..Len(HooksOf(file)) :
          /\ HooksOf(file)[i].v # <<>>
          /\ \A j \in 1..Len(HooksOf(file)[i].v) :
                ~OneCommandWithMarker(HooksOf(file)[i].v[j], marker)

\* A remove run of the project whose update was the run before it.
RemoveAfterUpdate ==
    /\ lastOp.kind = "update"
    /\ lastOp'.kind = "remove"
    /\ lastOp'.cwd = lastOp.cwd

\* C36: an update of a document that has a hooks sub-tree without managed
\* entries and without empty lists, followed by the remove of the same scope
\* and project, gives the document back: the same hooks sub-tree (keys and
\* entries, in order) and the same other content.
C36_RoundTrip ==
    [][ (RemoveAfterUpdate /\ CleanDocument(prevFile, OpMarker)) =>
            /\ settingsFile'.state = "json"
            /\ HooksOf(settingsFile') = HooksOf(prevFile)
            /\ settingsFile'.top = prevFile.top ]_vars

\* The document gives remove and cleanup nothing to do: it does not exist,
\* cannot be parsed, has no hooks sub-tree, or none of its entries passes the
\* managed test under the marker.
NothingToRemove(file, marker) ==
    \/ file.state \in {"absent", "corrupt"}
    \/ ~ObjHas(file.top, "hooks")
    \/ \A i \in 1..Len(HooksOf(file)) : \A j \in 1..Len(HooksOf(file)[i].v) :
          ~OneCommandWithMarker(HooksOf(file)[i].v[j], marker)

\* C37: a remove or cleanup run on a document with nothing to remove writes
\* nothing: the file is exactly as it was, and a file that does not exist is
\* not created.
C37_NoWriteWithoutRemoval ==
    /\ (lastOp.kind \in {"remove", "cleanup"} /\ NothingToRemove(prevFile, OpMarker)) =>
          /\ ~lastOp.wrote
          /\ settingsFile = prevFile
    /\ LET out == removeFromSettingsFile(AbsentFile, location, lastOp.cwd)
       IN ~out.wrote /\ out.file = AbsentFile

C37_Witness ==
    /\ lastOp.kind = "remove"
    /\ prevFile.state = "json"
    /\ \E i \in 1..Len(OldHooks) : UserPlain \in {OldHooks[i].v[j] : j \in 1..Len(OldHooks[i].v)}
    /\ NothingToRemove(prevFile, OpMarker)
    /\ ~lastOp.wrote /\ ~lastOp.warned
    /\ settingsFile = prevFile

\* ------------------------------------------- dispatcher: further properties
\* The arguments are those describe mode emits for a registered tool binding:
\* its event type, its matcher and its position in the list.
AdvertisedBinding ==
    LET hookHandlers == HandlersOf(hooks, argv.hookType)
        i == ParseInt(argv.index) + 1
    IN /\ IsToolHookType(argv.hookType)
       /\ "matcher" \in DOMAIN argv
       /\ i \in 1..Len(hookHandlers)
       /\ IsToolDef(hookHandlers[i])
       /\ hookHandlers[i].matcher = argv.matcher
       /\ GenerateSettings(hooks) # <<>>
       /\ \E d \in 1..Len(ListOf(GenerateSettings(hooks), argv.hookType)) :
             LET descriptor == ListOf(GenerateSettings(hooks), argv.hookType)[d]
             IN descriptor.matcher = argv.matcher /\ descriptor.index = i - 1

\* C33: an invoke-mode run with the arguments describe mode emitted for a
\* tool binding (whatever its matcher, the empty string included), on a
\* payload of the event type whose tool name the matcher selects, calls the
\* handler of that binding exactly once.
C33_AdvertisedReachable ==
    ( /\ InvokeMode
      /\ AdvertisedBinding
      /\ PayloadFits /\ "tool_name" \in DOMAIN stdin
      /\ Matches(argv.matcher, stdin.tool_name)
      /\ pc = "exited" ) =>
        calls = << [handler |-> ParseInt(argv.index) + 1, input |-> stdin] >>

\* C34: in an invoke-mode run for a tool event, every handler that is called
\* belongs to a binding whose registered matcher is the matcher of the
\* arguments and selects the tool of the payload.
C34_NoStaleDispatch ==
    (InvokeMode /\ IsToolHookType(argv.hookType)) =>
        \A c \in 1..Len(calls) :
            LET binding == HandlersOf(hooks, argv.hookType)[calls[c].handler]
            IN /\ IsToolDef(binding)
               /\ "matcher" \in DOMAIN argv
               /\ binding.matcher = argv.matcher
               /\ Matches(binding.matcher, stdin.tool_name)

\* ------------------------------------------------ blockEnvFiles: properties
\* The file name of a path: what follows the last "/".
Basename(filePath) ==
    LET cuts == {i \in 1..Len(filePath) : filePath[i] = "/"}
        last == IF cuts = {} THEN 0 ELSE CHOOSE i \in cuts : \A j \in cuts : j <= i
    IN SubSeq(filePath, last + 1, Len(filePath))

\* The file is .env or a variant of it: its name is ".env", followed by any
\* number of suffixes ".name".
IsEnvName(name) ==
    /\ Len(name) >= 2 /\ Len(name) % 2 = 0
    /\ name[1] = "." /\ Lower(name[2]) = "env"
    /\ \A k \in 2..(Len(name) \div 2) :
          name[2 * k - 1] = "." /\ name[2 * k] \notin {".", "/"}

\* The file is an example env file: a variant whose last suffix is one of
\* example, sample, template, dist.
IsExampleName(name) ==
    /\ IsEnvName(name)
    /\ Len(name) > 2
    /\ Lower(name[Len(name)]) \in ExampleSuffixes

\* C31: for a Read, Write, Edit or MultiEdit payload with a file path, the
\* handler returns a block decision with a reason when the path names .env
\* or a variant of it that is not an example file, and returns nothing when
\* it names an example env file or no env file at all.
C31_BlockEnvFiles ==
    ( /\ envResult.kind # "pending"
      /\ envInput.tool_name \in {"Read", "Write", "Edit", "MultiEdit"}
      /\ "file_path" \in DOMAIN envInput.tool_input
      /\ envInput.tool_input.file_path # <<>> ) =>
        LET name == Basename(envInput.tool_input.file_path)
        IN IF IsEnvName(name) /\ ~IsExampleName(name)
           THEN /\ envResult.kind = "return"
                /\ envResult.value.decision = "block"
                /\ envResult.value.reason # <<>>
           ELSE envResult.kind = "undefined"

====
